---- MODULE Spec2Model ----
(***************************************************************************)
(* biclustpy: the decomposition-and-aggregation orchestrator               *)
(* compute_bi_clusters and the solver selection Algorithm.run of           *)
(* src/biclustpy/main.py.  The helpers module (graph builder, component    *)
(* decomposer, bi-clique classifier, row/column id mapping) and the ILP    *)
(* backend are modelled from their contracts in spec.md (sections 3, 4).   *)
(***************************************************************************)
EXTENDS Integers, Sequences, FiniteSets, TLC

(***************************************************************************)
(* Bounds of the model.                                                    *)
(***************************************************************************)
\* the instances are those whose graph has connected components of at most
\* this many nodes
MaxComponentNodes == 4
\* the ILP backend changes at most this many edges of the subgraph it is given
MaxEdits == 1
\* what the ILP backend reports next to the graph: pairs of an objective
\* value and an optimality flag, both opaque to compute_bi_clusters
SolverReports == {<<0, TRUE>>, <<1, FALSE>>}

\* shapes (rows, columns) of the instances
Shapes == {<<2, 2>>, <<3, 3>>, <<4, 4>>}
\* the shapes whose instances are all the 0/1 matrices of that shape; an
\* instance of another shape is block-diagonal with blocks of two rows and two
\* columns (every weight outside the blocks is 0)
DenseShapes == {<<2, 2>>, <<3, 3>>}
\* thresholds; the entries of the weight matrix are 0 or 1
Thresholds == {0, 1}

VARIABLES
    weights,          \* the instance: [0..R-1 -> [0..C-1 -> weight]]
    threshold,        \* the threshold
    algorithm,        \* the Algorithm object handed to compute_bi_clusters
    pc,               \* position in compute_bi_clusters
    components,       \* connected components of the instance graph (l.73)
    ci,               \* index of the loop of l.74
    subgraphs,        \* components that have to be rendered bi-transitive (l.72)
    bi_clusters,      \* the list of bi-clusters under construction (l.65)
    obj_val,          \* running objective value (l.97)
    is_optimal,       \* running optimality flag (l.98)
    counter,          \* number of the subproblem being solved (l.99)
    out_components,   \* components of the solver's bi_transitive_subgraph (l.109)
    oi,               \* index of the loop of l.109
    error,            \* the exception that ended the run, if any
    result,           \* what compute_bi_clusters returned, if it did
    calls             \* the calls of algorithm.run made so far (l.106)

vars == <<weights, threshold, algorithm, pc, components, ci, subgraphs,
          bi_clusters, obj_val, is_optimal, counter, out_components, oi,
          error, result, calls>>

(***************************************************************************)
(* Small helpers over sets and sequences.                                  *)
(***************************************************************************)
Min(S) == CHOOSE x \in S : \A y \in S : x <= y

RECURSIVE SubsetsUpTo(_, _)
SubsetsUpTo(S, k) ==
    IF k = 0 \/ S = {} THEN {{}}
    ELSE LET x == CHOOSE y \in S : TRUE
             rest == S \ {x}
         IN SubsetsUpTo(rest, k) \cup {T \cup {x} : T \in SubsetsUpTo(rest, k - 1)}

RECURSIVE SumSeq(_)
SumSeq(s) == IF s = <<>> THEN 0 ELSE Head(s) + SumSeq(Tail(s))

RECURSIVE Concat(_)
Concat(ss) == IF ss = <<>> THEN <<>> ELSE Head(ss) \o Concat(Tail(ss))

Range(s) == {s[i] : i \in 1..Len(s)}

Reverse(s) == [k \in 1..Len(s) |-> s[Len(s) + 1 - k]]

\* range(n) of l.62
RangeSeq(n) == [k \in 1..n |-> k - 1]

(***************************************************************************)
(* The instance.                                                           *)
(***************************************************************************)
NumRows(w) == Cardinality(DOMAIN w)
NumCols(w) == Cardinality(DOMAIN w[0])

Cells(shape) ==
    {cell \in (0..(shape[1] - 1)) \X (0..(shape[2] - 1)) :
        shape \in DenseShapes \/ cell[1] \div 2 = cell[2] \div 2}

Matrix(shape, ones) ==
    [i \in 0..(shape[1] - 1) |->
        [j \in 0..(shape[2] - 1) |-> IF <<i, j>> \in ones THEN 1 ELSE 0]]

(***************************************************************************)
(* helpers: node ids, graph builder, decomposer, classifier.               *)
(***************************************************************************)
is_row(node, num_rows) == node < num_rows
node_to_col(node, num_rows) == node - num_rows

\* a graph object: nodes lists the nodes in the order the object iterates
\* them, edges is the set of undirected edges
Graph(N, E) == [nodes |-> N, edges |-> E]
NodeSet(g) == Range(g.nodes)

build_graph_from_weights(w, t, nodes) ==
    LET num_rows == NumRows(w)
        num_cols == NumCols(w)
    IN Graph(nodes,
             UNION {{{i, num_rows + j} : j \in {c \in 0..(num_cols - 1) : w[i][c] >= t}} :
                       i \in 0..(num_rows - 1)})

RECURSIVE Reach(_, _)
Reach(S, E) ==
    LET next == S \cup UNION {e \in E : e \cap S # {}}
    IN IF next = S THEN S ELSE Reach(next, E)

\* the subgraph on the nodes N, which keeps the order of g's nodes
Induced(g, N) ==
    LET Kept(n) == n \in N
    IN Graph(SelectSeq(g.nodes, Kept), {e \in g.edges : e \subseteq N})

\* the components in the order in which the nodes of g first meet them
RECURSIVE ComponentsFrom(_, _)
ComponentsFrom(g, left) ==
    IF left = <<>> THEN <<>>
    ELSE LET N == Reach({Head(left)}, g.edges)
             Other(n) == n \notin N
         IN <<Induced(g, N)>> \o ComponentsFrom(g, SelectSeq(left, Other))

connected_components(g) == ComponentsFrom(g, g.nodes)

RowsOf(g, num_rows) == {n \in NodeSet(g) : is_row(n, num_rows)}
ColsOf(g, num_rows) == {n \in NodeSet(g) : ~is_row(n, num_rows)}

is_bi_clique(g, num_rows) ==
    /\ \A r \in RowsOf(g, num_rows) : \A c \in ColsOf(g, num_rows) :
           {r, c} \in g.edges
    /\ \A e \in g.edges :
           \E r \in e : \E c \in e : is_row(r, num_rows) /\ ~is_row(c, num_rows)

(***************************************************************************)
(* class Algorithm (l.4-41).                                               *)
(***************************************************************************)
DefaultTimeLimit == 60

\* Algorithm.__init__ (l.15-18)
DefaultAlgorithm ==
    [algorithm_name |-> "ILP", ilp_time_limit |-> DefaultTimeLimit,
     ilp_tune |-> FALSE]

\* the Algorithm objects a caller hands over: the default one and ones whose
\* attributes were reassigned
Algorithms ==
    {DefaultAlgorithm,
     [DefaultAlgorithm EXCEPT !.algorithm_name = "FP"],
     [DefaultAlgorithm EXCEPT !.algorithm_name = "EDGE-DEL", !.ilp_tune = TRUE],
     [DefaultAlgorithm EXCEPT !.algorithm_name = "GREEDY", !.ilp_time_limit = 0]}

NoError == [kind |-> "none", msg |-> "", nodes |-> <<>>, edges |-> {}]
ConfigError(m) == [kind |-> "config", msg |-> m, nodes |-> <<>>, edges |-> {}]
SolverError == [kind |-> "solver", msg |-> "ilp", nodes |-> <<>>, edges |-> {}]
ConsistencyError(component) ==
    [kind |-> "consistency", msg |-> "Subgraph should be bi-clique but isn't.:",
     nodes |-> component.nodes, edges |-> component.edges]

\* the branch Algorithm.run takes (l.34-41): "ILP" for the backend, otherwise
\* the message of the exception raised
RunBranchFallsThrough(name) ==
    IF name \in {"ILP", "FP", "EDGE-DEL"} THEN
        IF name = "ILP" THEN "ILP"
        ELSE "The algorithm " \o name \o " has not been implemented yet."
    ELSE "ILP"

RunBranch(name) ==
    IF name = "ILP" THEN "ILP"
    ELSE IF name = "FP" THEN "The algorithm FP has not been implemented yet."
    ELSE IF name = "EDGE-DEL"
         THEN "The algorithm EDGE-DEL has not been implemented yet."
    ELSE "Invalid algorithm name \"" \o name
             \o "\". Must be either \"ILP\", \"FP\", or \"EDGE-DEL\"."

(***************************************************************************)
(* ilp.run: the backend, by its contract (spec 4.4).  It returns a graph   *)
(* over the nodes of the subgraph, or over a subset or a superset of them, *)
(* an objective value and an optimality flag.  The graphs returned here    *)
(* are over the subgraph's nodes, over all but one of them, or over them   *)
(* and one more node of the instance; their row-column edges differ from   *)
(* the subgraph's in at most MaxEdits places.  Whether the returned graph  *)
(* is bi-transitive is not assumed, and neither is the order in which it   *)
(* lists its nodes.                                                        *)
(***************************************************************************)
PairsOf(g, num_rows) ==
    {{r, c} : <<r, c>> \in RowsOf(g, num_rows) \X ColsOf(g, num_rows)}

\* the orders in which the returned graph may list the nodes
NodeOrders(nodes) == {nodes, Reverse(nodes)}

\* the node lists of the returned graph: the subgraph's nodes in their order
\* or in the reverse order, all but one of them, or one more node of the
\* instance followed by all of them
ilp_run_nodes(subgraph, all_nodes) ==
    LET nodes == subgraph.nodes
        Without(n) == LET Other(m) == m # n IN SelectSeq(nodes, Other)
    IN NodeOrders(nodes) \cup {Without(n) : n \in Range(nodes)}
           \cup {<<n>> \o nodes : n \in all_nodes \ Range(nodes)}

ilp_run_graphs(subgraph, num_rows, all_nodes) ==
    UNION {LET g == Graph(l, {e \in subgraph.edges : e \subseteq Range(l)})
           IN {Graph(l, (g.edges \ X) \cup (X \ g.edges)) :
                  X \in SubsetsUpTo(PairsOf(g, num_rows), MaxEdits)} :
              l \in ilp_run_nodes(subgraph, all_nodes)}

(***************************************************************************)
(* compute_bi_clusters (l.44-135).                                         *)
(***************************************************************************)
NoResult == [returned |-> FALSE, bi_clusters |-> <<>>, obj_val |-> 0,
             is_optimal |-> FALSE]

\* the rows and the columns of a component, in the order of component.nodes
RowNodes(component, num_rows) ==
    LET IsRow(n) == is_row(n, num_rows)
    IN SelectSeq(component.nodes, IsRow)
ColNodes(component, num_rows) ==
    LET IsCol(n) == ~is_row(n, num_rows)
    IN SelectSeq(component.nodes, IsCol)

\* the column list keeps the node ids
MakeBiClusterRawCols(component, num_rows) ==
    <<RowNodes(component, num_rows), ColNodes(component, num_rows)>>

\* the rows land in the second list and the columns in the first
MakeBiClusterSwapped(component, num_rows) ==
    LET rows == RowNodes(component, num_rows)
        cols == ColNodes(component, num_rows)
    IN <<[k \in 1..Len(cols) |-> node_to_col(cols[k], num_rows)], rows>>

\* l.76-81 and l.115-120: the rows and the columns of a component, appended
\* in the order in which component.nodes yields them
MakeBiCluster(component, num_rows) ==
    LET rows == RowNodes(component, num_rows)
        cols == ColNodes(component, num_rows)
    IN <<rows, [k \in 1..Len(cols) |-> node_to_col(cols[k], num_rows)]>>

\* the exception is noted and the loop over the subproblems goes on
RaiseAndContinue(e) == pc' = "dispatch" /\ error' = e

\* a raise statement that nothing catches (l.37, 39, 41, 114, or inside ilp.run)
Raise(e) == pc' = "error" /\ error' = e

\* the value of the last subproblem replaces the sum
AccumulateObjLast(total, local) == local

\* l.107
AccumulateObj(total, local) == total + local

\* the flag of the last subproblem replaces the conjunction
AccumulateOptLast(flag, local) == local

\* l.108
AccumulateOpt(flag, local) == flag /\ local

\* every component is handed to the solver
NeedsSolvingAlways(component, num_rows) == TRUE

\* no component is handed to the solver
NeedsSolvingNever(component, num_rows) == FALSE

\* l.75
NeedsSolving(component, num_rows) == ~is_bi_clique(component, num_rows)

\* the solver's output is never rejected
FailsValidationNever(component, num_rows) == FALSE

\* l.110
FailsValidation(component, num_rows) == ~is_bi_clique(component, num_rows)

\* the first subproblem is solved again and again
SubproblemFirst(done) == 1

\* l.100: the subproblem the loop takes after `done` iterations
Subproblem(done) == done + 1

Init ==
    /\ \E shape \in Shapes, t \in Thresholds :
         \E ones \in SUBSET Cells(shape) :
           /\ weights = Matrix(shape, ones)
           /\ threshold = t
           /\ \A c \in Range(connected_components(build_graph_from_weights(
                      Matrix(shape, ones), t, RangeSeq(shape[1] + shape[2])))) :
                  Len(c.nodes) <= MaxComponentNodes
    /\ algorithm \in Algorithms
    /\ pc = "start"
    /\ components = <<>>
    /\ ci = 0
    /\ subgraphs = <<>>
    /\ bi_clusters = <<>>
    /\ obj_val = 0
    /\ is_optimal = TRUE
    /\ counter = 0
    /\ out_components = <<>>
    /\ oi = 0
    /\ error = NoError
    /\ result = NoResult
    /\ calls = <<>>

\* l.60-73: build the graph, decompose it
Build ==
    /\ pc = "start"
    /\ components' = connected_components(
           build_graph_from_weights(weights, threshold,
               RangeSeq(NumRows(weights) + NumCols(weights))))
    /\ bi_clusters' = <<>>
    /\ subgraphs' = <<>>
    /\ ci' = 1
    /\ pc' = "classify"
    /\ UNCHANGED <<weights, threshold, algorithm, obj_val, is_optimal, counter,
                   out_components, oi, error, result, calls>>

\* l.74-84: one iteration of the classification loop
Classify ==
    /\ pc = "classify"
    /\ ci <= Len(components)
    /\ IF NeedsSolving(components[ci], NumRows(weights))
       THEN /\ subgraphs' = Append(subgraphs, components[ci])
            /\ UNCHANGED bi_clusters
       ELSE /\ bi_clusters' = Append(bi_clusters,
                                  MakeBiCluster(components[ci], NumRows(weights)))
            /\ UNCHANGED subgraphs
    /\ ci' = ci + 1
    /\ UNCHANGED <<weights, threshold, algorithm, pc, components, obj_val,
                   is_optimal, counter, out_components, oi, error, result, calls>>

\* l.86-99: the loop is over; initialise the accumulators
StartSolving ==
    /\ pc = "classify"
    /\ ci > Len(components)
    /\ obj_val' = 0
    /\ is_optimal' = TRUE
    /\ counter' = 0
    /\ pc' = "dispatch"
    /\ UNCHANGED <<weights, threshold, algorithm, components, ci, subgraphs,
                   bi_clusters, out_components, oi, error, result, calls>>

Call(sub, ok, val, opt, g) ==
    [subgraph |-> sub, name |-> algorithm.algorithm_name, returned |-> ok,
     obj_val |-> val, is_optimal |-> opt, graph |-> g,
     time_limit |-> algorithm.ilp_time_limit, tune |-> algorithm.ilp_tune]

\* l.100-109: the next subproblem; algorithm.run reaches the backend, which returns
SolveReturns ==
    /\ pc = "dispatch"
    /\ counter < Len(subgraphs)
    /\ RunBranch(algorithm.algorithm_name) = "ILP"
    /\ counter' = counter + 1
    /\ \E g \in ilp_run_graphs(subgraphs[Subproblem(counter)], NumRows(weights),
                                  0..(NumRows(weights) + NumCols(weights) - 1)),
          report \in SolverReports :
         /\ obj_val' = AccumulateObj(obj_val, report[1])
         /\ is_optimal' = AccumulateOpt(is_optimal, report[2])
         /\ out_components' = connected_components(g)
         /\ calls' = Append(calls, Call(subgraphs[Subproblem(counter)], TRUE,
                                        report[1], report[2], g))
    /\ oi' = 1
    /\ pc' = "validate"
    /\ UNCHANGED <<weights, threshold, algorithm, components, ci, subgraphs,
                   bi_clusters, error, result>>

\* l.100-106: the next subproblem; algorithm.run reaches the backend, which raises
SolveRaises ==
    /\ pc = "dispatch"
    /\ counter < Len(subgraphs)
    /\ RunBranch(algorithm.algorithm_name) = "ILP"
    /\ counter' = counter + 1
    /\ calls' = Append(calls, Call(subgraphs[Subproblem(counter)], FALSE, 0, FALSE,
                                    Graph(<<>>, {})))
    /\ Raise(SolverError)
    /\ UNCHANGED <<weights, threshold, algorithm, components, ci, subgraphs,
                   bi_clusters, obj_val, is_optimal, out_components, oi, result>>

\* l.100-106 and l.36-41: the next subproblem; algorithm.run raises
SolveConfigError ==
    /\ pc = "dispatch"
    /\ counter < Len(subgraphs)
    /\ RunBranch(algorithm.algorithm_name) # "ILP"
    /\ counter' = counter + 1
    /\ calls' = Append(calls, Call(subgraphs[Subproblem(counter)], FALSE, 0, FALSE,
                                    Graph(<<>>, {})))
    /\ Raise(ConfigError(RunBranch(algorithm.algorithm_name)))
    /\ UNCHANGED <<weights, threshold, algorithm, components, ci, subgraphs,
                   bi_clusters, obj_val, is_optimal, out_components, oi, result>>

\* l.109-121: one component of the solver's output
Validate ==
    /\ pc = "validate"
    /\ oi <= Len(out_components)
    /\ IF FailsValidation(out_components[oi], NumRows(weights))
       THEN /\ Raise(ConsistencyError(out_components[oi]))
            /\ UNCHANGED <<bi_clusters, oi>>
       ELSE /\ bi_clusters' = Append(bi_clusters,
                                  MakeBiCluster(out_components[oi], NumRows(weights)))
            /\ oi' = oi + 1
            /\ pc' = IF oi = Len(out_components) THEN "dispatch" ELSE "validate"
            /\ UNCHANGED error
    /\ UNCHANGED <<weights, threshold, algorithm, components, ci, subgraphs,
                   obj_val, is_optimal, counter, out_components, result, calls>>

\* l.124-135: all subproblems are solved
Return ==
    /\ pc = "dispatch"
    /\ counter = Len(subgraphs)
    /\ result' = [returned |-> TRUE, bi_clusters |-> bi_clusters,
                  obj_val |-> obj_val, is_optimal |-> is_optimal]
    /\ pc' = "done"
    /\ UNCHANGED <<weights, threshold, algorithm, components, ci, subgraphs,
                   bi_clusters, obj_val, is_optimal, counter, out_components, oi,
                   error, calls>>

Next ==
    \/ Build
    \/ Classify
    \/ StartSolving
    \/ SolveReturns
    \/ SolveRaises
    \/ SolveConfigError
    \/ Validate
    \/ Return

Spec == Init /\ [][Next]_vars

(***************************************************************************)
(* What the properties speak about: the instance graph and its components, *)
(* computed from the inputs alone.                                         *)
(***************************************************************************)
R == NumRows(weights)
C == NumCols(weights)
InstanceGraph == build_graph_from_weights(weights, threshold, RangeSeq(R + C))
InstanceComponents == connected_components(InstanceGraph)
IsTrivial(c) == is_bi_clique(c, R)
IsNonTrivial(c) == ~is_bi_clique(c, R)
TrivialComponents == SelectSeq(InstanceComponents, IsTrivial)
NonTrivialComponents == SelectSeq(InstanceComponents, IsNonTrivial)

RowIds(bcs) == Concat([k \in 1..Len(bcs) |-> bcs[k][1]])
ColIds(bcs) == Concat([k \in 1..Len(bcs) |-> bcs[k][2]])
\* the nodes a bi-cluster stands for
NodesOf(bc) == Range(bc[1]) \cup {j + R : j \in Range(bc[2])}
\* s lists every element of S exactly once
ListsExactlyOnce(s, S) == Len(s) = Cardinality(S) /\ Range(s) = S
OutputComponents(call) == connected_components(call.graph)
InvalidAt(cs) == {i \in 1..Len(cs) : ~is_bi_clique(cs[i], R)}
RECURSIVE ConvertedUpTo(_)
ConvertedUpTo(k) ==
    IF k = 0 THEN 0 ELSE Len(OutputComponents(calls[k])) + ConvertedUpTo(k - 1)
\* the number of places of s that hold x
Count(s, x) == Cardinality({i \in 1..Len(s) : s[i] = x})
\* the call returned a graph over exactly the nodes of the subgraph it was given
KeptNodeSet(call) == NodeSet(call.graph) = NodeSet(call.subgraph)
\* the call returned a graph with no node outside the subgraph it was given
AddedNoNode(call) == NodeSet(call.graph) \subseteq NodeSet(call.subgraph)
ObjValuesOf(cs) == [k \in 1..Len(cs) |-> cs[k].obj_val]

Ones2x2 == [i \in 0..1 |-> [j \in 0..1 |-> 1]]
Diag2x2 == [i \in 0..1 |-> [j \in 0..1 |-> IF i = j THEN 1 ELSE 0]]

(***************************************************************************)
(* C1 - partition invariant as stated.  When compute_bi_clusters returns,  *)
(* the row lists of the returned bi-clusters together list every row id of *)
(* [0,R) exactly once and the column lists every column id of [0,C)        *)
(* exactly once.                                                           *)
(***************************************************************************)
C1_Partition ==
    result.returned =>
        /\ ListsExactlyOnce(RowIds(result.bi_clusters), 0..(R - 1))
        /\ ListsExactlyOnce(ColIds(result.bi_clusters), 0..(C - 1))

(***************************************************************************)
(* C1 - partition invariant as amended.  When compute_bi_clusters returns, *)
(* no bi-cluster lists an id twice, and a row id (column id, as node id    *)
(* minus R) is listed once for the trivial component that holds its node   *)
(* and once for every solver call whose returned graph holds its node.  So *)
(* the row lists list every row id of [0,R) exactly once and the column    *)
(* lists every column id of [0,C) exactly once whenever every solver call  *)
(* returned a graph over exactly the nodes of the subgraph it was given.   *)
(***************************************************************************)
C1_PartitionOfListedGraphs ==
    result.returned =>
        LET bcs == result.bi_clusters
            rows == RowIds(bcs)
            cols == ColIds(bcs)
            trivial == UNION {NodeSet(c) : c \in Range(TrivialComponents)}
            Listed(n) == (IF n \in trivial THEN 1 ELSE 0)
                         + Cardinality({k \in 1..Len(calls) :
                                           n \in NodeSet(calls[k].graph)})
        IN /\ \A k \in 1..Len(bcs) :
                /\ Cardinality(Range(bcs[k][1])) = Len(bcs[k][1])
                /\ Cardinality(Range(bcs[k][2])) = Len(bcs[k][2])
           /\ \A i \in (0..(R - 1)) \cup Range(rows) : Count(rows, i) = Listed(i)
           /\ \A j \in (0..(C - 1)) \cup Range(cols) : Count(cols, j) = Listed(j + R)
           /\ (\A k \in 1..Len(calls) : KeptNodeSet(calls[k])) =>
                /\ ListsExactlyOnce(rows, 0..(R - 1))
                /\ ListsExactlyOnce(cols, 0..(C - 1))

\* a run that returned after two solver calls: the first graph lacks a node
\* of its subgraph, the second is over the nodes of its subgraph
C1_Witness ==
    /\ result.returned
    /\ Len(calls) = 2
    /\ NodeSet(calls[1].graph) # NodeSet(calls[1].subgraph)
    /\ AddedNoNode(calls[1])
    /\ KeptNodeSet(calls[2])
    /\ Len(result.bi_clusters) >= 4

(***************************************************************************)
(* C2 - bi-clique invariant as stated: every returned bi-cluster, rebuilt  *)
(* as a subgraph of the instance by the threshold rule, is a complete      *)
(* bipartite graph between its rows and its columns.                       *)
(***************************************************************************)
C2_ThresholdBiClique ==
    result.returned =>
        LET ig == InstanceGraph
        IN \A k \in 1..Len(result.bi_clusters) :
               is_bi_clique(Induced(ig, NodesOf(result.bi_clusters[k])), R)

(***************************************************************************)
(* C2 - bi-clique invariant as amended: every returned bi-cluster is a     *)
(* complete bipartite connected component of the graph it was read from:   *)
(* the instance graph (threshold rule) for a bi-cluster of a trivial       *)
(* component, the graph the solver returned for a bi-cluster of a solver   *)
(* output.                                                                 *)
(***************************************************************************)
C2_BiCliqueInItsGraph ==
    result.returned =>
        LET ig == InstanceGraph
            ic == connected_components(ig)
            trivial == Len(SelectSeq(ic, IsTrivial))
            solved == UNION {Range(OutputComponents(calls[j])) :
                               j \in {i \in 1..Len(calls) : calls[i].returned}}
        IN \A k \in 1..Len(result.bi_clusters) :
            LET N == NodesOf(result.bi_clusters[k])
            IN IF k <= trivial
               THEN /\ Induced(ig, N) \in Range(ic)
                    /\ is_bi_clique(Induced(ig, N), R)
               ELSE \E c \in solved : NodeSet(c) = N /\ is_bi_clique(c, R)

\* a run that returned a bi-cluster the solver made by inserting an edge
C2_Witness ==
    /\ result.returned
    /\ \E k \in 1..Len(result.bi_clusters) :
          ~is_bi_clique(Induced(InstanceGraph, NodesOf(result.bi_clusters[k])), R)

(***************************************************************************)
(* C3 - optimality AND law.  When compute_bi_clusters returns, the         *)
(* returned flag is true iff every solver call reported is_optimal = true  *)
(* (true without calls); a call reporting non-optimal does not stop the    *)
(* run.                                                                    *)
(***************************************************************************)
C3_OptimalityAnd ==
    result.returned =>
        /\ \A k \in 1..Len(calls) : calls[k].returned
        /\ result.is_optimal = (\A k \in 1..Len(calls) : calls[k].is_optimal)

\* a run that returned after a non-optimal call followed by an optimal one
C3_Witness ==
    /\ result.returned
    /\ Len(calls) = 2
    /\ ~calls[1].is_optimal
    /\ calls[2].is_optimal
    /\ ~result.is_optimal

(***************************************************************************)
(* C4 - objective additivity.  When compute_bi_clusters returns, the       *)
(* returned objective value is the sum of the values the solver calls      *)
(* reported, one call per nontrivial component; trivial components add 0.  *)
(***************************************************************************)
C4_ObjectiveSum ==
    result.returned =>
        /\ Len(calls) = Len(NonTrivialComponents)
        /\ result.obj_val = SumSeq(ObjValuesOf(calls))

\* a run that returned the sum of the two nonzero values of its two calls
C4_Witness ==
    /\ result.returned
    /\ Len(calls) = 2
    /\ calls[1].obj_val = 1
    /\ calls[2].obj_val = 1
    /\ result.obj_val = 2

(***************************************************************************)
(* C5 - all-trivial instances.  If every component of the instance graph   *)
(* is a bi-clique, no solver call is made and no error is raised whatever  *)
(* the Algorithm object holds, and the run returns objective 0, flag true  *)
(* and one bi-cluster per component; the 2x2 instance with all four        *)
(* weights at the threshold returns the single bi-cluster ([0,1],[0,1]).   *)
(* (components is the decomposition of l.73; a run that returns is also    *)
(* compared with the decomposition computed from the weights.)             *)
(***************************************************************************)
C5_AllTrivial ==
    /\ (pc # "start" /\ \A k \in 1..Len(components) : is_bi_clique(components[k], R)) =>
          /\ calls = <<>>
          /\ subgraphs = <<>>
          /\ error = NoError
          /\ pc # "validate"
    /\ result.returned =>
          LET ic == InstanceComponents
          IN (\A k \in 1..Len(ic) : is_bi_clique(ic[k], R)) =>
                /\ calls = <<>>
                /\ result.obj_val = 0
                /\ result.is_optimal = TRUE
                /\ Len(result.bi_clusters) = Len(ic)
                /\ (weights = Ones2x2 /\ threshold = 1) =>
                       result.bi_clusters = << << <<0, 1>>, <<0, 1>> >> >>

\* an all-trivial instance of several components that returned under a name
\* Algorithm.run does not know
C5_Witness ==
    /\ result.returned
    /\ \A c \in Range(InstanceComponents) : is_bi_clique(c, R)
    /\ Len(InstanceComponents) >= 2
    /\ \E c \in Range(InstanceComponents) : c.edges # {}
    /\ algorithm.algorithm_name = "GREEDY"

(***************************************************************************)
(* C6 - contract-violation detection.  A call whose returned graph has a   *)
(* component that is not a bi-clique is the last call of its run: while    *)
(* its output is being validated nothing is returned, the run never gets   *)
(* past the validation, and when it ends it ends with the                  *)
(* internal-consistency error carrying the nodes and edges of the first    *)
(* such component; so every call of a run that goes on or returns had an   *)
(* output of bi-cliques only.                                              *)
(***************************************************************************)
C6_InvalidOutputRaises ==
    LET n == Len(calls)
    IN /\ \A k \in 1..(n - 1) :
            calls[k].returned /\ InvalidAt(OutputComponents(calls[k])) = {}
       /\ (n >= 1 /\ calls[n].returned) =>
            IF pc = "validate" THEN error = NoError /\ ~result.returned
            ELSE IF pc = "error"
            THEN LET cs == OutputComponents(calls[n])
                     bad == InvalidAt(cs)
                 IN /\ bad # {}
                    /\ error = ConsistencyError(cs[Min(bad)])
                    /\ ~result.returned
            ELSE InvalidAt(OutputComponents(calls[n])) = {}
       /\ error.kind = "consistency" => n >= 1 /\ calls[n].returned

\* the first call's output was converted; the second call's output failed at
\* its second component, after its first component was converted
C6_Witness ==
    /\ pc = "error"
    /\ error.kind = "consistency"
    /\ error.edges # {}
    /\ Len(calls) = 2
    /\ bi_clusters # <<>>
    /\ oi = 2

(***************************************************************************)
(* C7 - configuration error.  Only the name "ILP" reaches the backend.     *)
(* Under any other name no call of algorithm.run returns; the first        *)
(* dispatch of a nontrivial component raises the configuration error       *)
(* ("not implemented" for "FP" and "EDGE-DEL", "invalid name" otherwise),  *)
(* which ends the run with no result and no second dispatch.               *)
(***************************************************************************)
C7_ConfigurationError ==
    LET name == algorithm.algorithm_name
    IN /\ error.kind = "config" => name # "ILP"
       /\ name # "ILP" =>
            /\ \A k \in 1..Len(calls) : ~calls[k].returned
            /\ error.kind \in {"none", "config"}
            /\ pc # "validate"
            /\ calls # <<>> =>
                 /\ Len(calls) = 1
                 /\ counter = 1
                 /\ pc = "error"
                 /\ ~result.returned
                 /\ error.kind = "config"
                 /\ name = "FP" =>
                      error.msg = "The algorithm FP has not been implemented yet."
                 /\ name = "EDGE-DEL" =>
                      error.msg = "The algorithm EDGE-DEL has not been implemented yet."
                 /\ name = "GREEDY" =>
                      error.msg = "Invalid algorithm name \"GREEDY\". Must be either \"ILP\", \"FP\", or \"EDGE-DEL\"."

\* the unknown name raised at the first of two nontrivial components
C7_Witness ==
    /\ pc = "error"
    /\ error.kind = "config"
    /\ algorithm.algorithm_name = "GREEDY"
    /\ Len(subgraphs) = 2
    /\ counter = 1

(***************************************************************************)
(* C8 - dispatch discipline.  No call is made before every component is    *)
(* classified; the k-th call is made for the k-th component of the         *)
(* instance graph that is not a bi-clique, so never for a bi-clique and    *)
(* never twice; before a call starts, every component of the earlier       *)
(* calls' outputs has been converted into a bi-cluster; a run that returns *)
(* has made exactly one call per nontrivial component.  (components is the *)
(* decomposition of l.73; a run that returns is also compared with the     *)
(* decomposition computed from the weights.)                               *)
(***************************************************************************)
C8_DispatchDiscipline ==
    /\ pc \in {"start", "classify"} => calls = <<>>
    /\ calls # <<>> =>
         LET nontrivial == SelectSeq(components, IsNonTrivial)
             trivial == Len(components) - Len(nontrivial)
         IN /\ Len(calls) <= Len(nontrivial)
            /\ \A k \in 1..Len(calls) : calls[k].subgraph = nontrivial[k]
            /\ \A k \in 1..(Len(calls) - 1) : calls[k].returned
            /\ Len(calls) = counter
            /\ pc = "validate" =>
                 Len(bi_clusters) = trivial + ConvertedUpTo(Len(calls) - 1) + oi - 1
            /\ pc \in {"dispatch", "done"} =>
                 Len(bi_clusters) = trivial + ConvertedUpTo(Len(calls))
    /\ result.returned =>
         /\ components = InstanceComponents
         /\ Len(calls) = Len(SelectSeq(components, IsNonTrivial))

\* the second call was made after the two components of the first output
\* were converted
C8_Witness ==
    /\ Len(calls) = 2
    /\ calls[2].returned
    /\ pc = "validate"
    /\ oi = 1
    /\ Len(bi_clusters) = 2

(***************************************************************************)
(* C9 - fail-fast.  Once a subproblem has failed (the solver call raised,  *)
(* or a component of its output failed the bi-clique check), the run is in *)
(* the error state with nothing returned, the failed call is the last call *)
(* made, and from then on no call is made and nothing is returned.         *)
(***************************************************************************)
C9_FailFast ==
    /\ [](error # NoError =>
            /\ pc = "error"
            /\ ~result.returned
            /\ Len(calls) = counter
            /\ counter >= 1)
    /\ [](pc = "error" => error # NoError)
    /\ [][error # NoError =>
            calls' = calls /\ result' = result /\ pc' = pc /\ error' = error]_vars

\* the first of two subproblems failed in the solver; the second was never
\* dispatched
C9_Witness ==
    /\ pc = "error"
    /\ error.kind = "solver"
    /\ counter = 1
    /\ Len(calls) = 1
    /\ Len(subgraphs) = 2

====
